---- MODULE Spec2Model ----
(***************************************************************************)
(* A model of android/src/main/cpp/native_binder_jni.c: the JNI bridge     *)
(* between native callers and the managed NativeBinder class.              *)
(*                                                                         *)
(* Every thread runs the exported functions statement by statement; a      *)
(* step is one access to the process-wide statics or one call into the     *)
(* managed runtime, so that the interleavings of the unsynchronised        *)
(* statics are those the code allows.  The managed runtime (the JNI        *)
(* functions the code calls) is the environment: class lookup, method      *)
(* lookup, array allocation, malloc and the managed handler each choose    *)
(* their outcome nondeterministically.                                     *)
(***************************************************************************)
EXTENDS Integers, Sequences, FiniteSets, TLC

\* ------------------------------------------------------------- bounds
MaxCalls == 2        \* calls of native_binder_call started in one run
MaxInCalls == 2      \* calls of callDartNative started in one run
MaxRegs == 2         \* calls of dart_binder_register in one run
MaxBridgeCalls == 3  \* calls started in one run of SpecBridge

Threads == {"t1", "t2"}

\* ---------------------------------------------------------- constants
JNI_OK == "JNI_OK"
JNI_EDETACHED == "JNI_EDETACHED"
JNI_EVERSION == "JNI_EVERSION"

\* A pointer is 0 (NULL) or the address of a live or freed block.
NULLPTR == 0
\* A message pointer: NoMsg is the null pointer, any other a byte sequence.
NoMsg == <<-1>>
\* A jbyteArray: NoArr is the null reference, any other the array's jbytes.
NoArr == <<999>>
\* A jclass held in g_bridge_class: <<kind, owning thread, number>>.
NoRef == <<"null", "-", 0>>
NoId == "NULL"
HandleCallId == "handleCall([B)[B"

\* The messages callers pass: empty, one byte, two bytes of either sign
Msgs == {<<>>, <<200>>, <<1, 200>>}

LocalRef(t) == <<"local", t, 0>>
GlobalRef(n) == <<"global", "-", n>>
IsGlobal(r) == r[1] = "global"
IsLocal(r) == r[1] = "local"

\* the largest jsize (a signed 32-bit int)
JSIZE_MAX == 2147483647
\* (jsize)len: a uint32_t above JSIZE_MAX wraps to a negative jsize
ToJsize(n) == IF n > JSIZE_MAX THEN ((n - JSIZE_MAX) - JSIZE_MAX) - 2 ELSE n
\* (uint32_t)out_len_jsize: a negative jsize wraps to a large uint32_t
ToU32(n) == IF n < 0 THEN ((n + JSIZE_MAX) + JSIZE_MAX) + 2 ELSE n
\* (jbyte *)msg: a uint8_t read as a signed byte, and back
ToJbyte(b) == IF b >= 128 THEN b - 256 ELSE b
FromJbyte(j) == IF j < 0 THEN j + 256 ELSE j

\* The managed handler handleCall: what it does with the array it is given.
FixedReply == <<ToJbyte(200), ToJbyte(1)>>
HandlerModes == {"identity", "fixed", "null", "throws"}

VARIABLES
    \* process-wide statics (lines 6-12)
    g_vm, g_bridge_class, g_handle_call_id, g_dart_callback,
    \* the managed runtime and the C heap
    threadAttached,   \* thread -> attached to the VM
    localRefs,        \* thread -> live local references in its frame
    classLocal,       \* thread -> it holds a live local reference to the class
    pending,          \* thread -> a managed exception is pending
    globalRefs,       \* global references created so far
    heap,             \* live malloc blocks: <<address, bytes>>
    crashed,          \* the process was terminated
    \* native_binder_call, per thread
    pc, msg, env, attached, newref, in_arr, out_arr, ret, out_len,
    \* per call: what the caller and the runtime observed
    exitPath, entryAttached, entryRefs, ndetach, hmode, ncalls,
    entryCached,      \* thread -> both statics were set when its call began
    retry,            \* thread -> its previous call failed in ensure_bridge
    \* callDartNative and dart_binder_register, per thread
    ipc, imsg, seen, in_buf, cb_called, cb_out, cb_len, iresult,
    \* per inbound call: what the runtime observed
    iexit, nmalloc, nfree, allowed, lastReg, nin, nregs

statics == <<g_vm, g_bridge_class, g_handle_call_id>>
runtime == <<threadAttached, localRefs, classLocal, pending, globalRefs>>
frame == <<pc, msg, env, attached, newref, in_arr, out_arr, ret, out_len>>
hist == <<entryCached, retry>>
obs == <<exitPath, entryAttached, entryRefs, ndetach, hmode, ncalls,
         hist>>
inbound == <<g_dart_callback, ipc, imsg, seen, in_buf, cb_called, cb_out,
             cb_len, iresult, iexit, nmalloc, nfree, allowed, lastReg, nin,
             nregs>>
vars == <<statics, runtime, heap, crashed, frame, obs, inbound>>

\* ------------------------------------------------------------ helpers
Callbacks == {"echo", "null", "empty"}
NoCb == "NULL"

\* A class reference is usable on thread t: a global reference anywhere, a
\* local reference only on the thread that owns it and while it is live.
ClassRefValid(t, r) ==
    IsGlobal(r) \/ (IsLocal(r) /\ r[2] = t /\ classLocal[t])

\* What a JNI function given class reference r on thread t can do: passing
\* an invalid reference is undefined (it may abort, be rejected, or happen
\* to resolve); calling with an exception pending may abort.
RefUse(t, r) ==
    (IF r = NoRef THEN {"crash"}
     ELSE IF ClassRefValid(t, r) THEN {"ok"}
     ELSE {"ok", "fail", "crash"})
    \cup (IF pending[t] THEN {"crash"} ELSE {})

EnvUse(t) ==
    IF ~env[t] THEN {"crash"}
    ELSE {"ok", "fail"} \cup (IF pending[t] THEN {"crash"} ELSE {})

\* malloc: the lowest free address
FreshAddr == CHOOSE a \in 1..(Cardinality(heap) + 1) :
                 \A b \in heap : b[1] # a
Block(a) == CHOOSE b \in heap : b[1] = a
Live(a) == \E b \in heap : b[1] = a

Init ==
    /\ g_vm = FALSE
    /\ g_bridge_class = NoRef
    /\ g_handle_call_id = NoId
    /\ g_dart_callback = NoCb
    /\ threadAttached \in [Threads -> BOOLEAN]
    /\ localRefs = [t \in Threads |-> 0]
    /\ classLocal = [t \in Threads |-> FALSE]
    /\ pending = [t \in Threads |-> FALSE]
    /\ globalRefs = 0
    /\ heap = {}
    /\ crashed = FALSE
    /\ pc = [t \in Threads |-> "idle"]
    /\ msg = [t \in Threads |-> NoMsg]
    /\ env = [t \in Threads |-> FALSE]
    /\ attached = [t \in Threads |-> FALSE]
    /\ newref = [t \in Threads |-> NoRef]
    /\ in_arr = [t \in Threads |-> NoArr]
    /\ out_arr = [t \in Threads |-> NoArr]
    /\ ret = [t \in Threads |-> NULLPTR]
    /\ out_len = [t \in Threads |-> 0]
    /\ exitPath = [t \in Threads |-> "none"]
    /\ entryAttached = [t \in Threads |-> FALSE]
    /\ entryRefs = [t \in Threads |-> 0]
    /\ ndetach = [t \in Threads |-> 0]
    /\ hmode = [t \in Threads |-> "none"]
    /\ ncalls = 0
    /\ entryCached = [t \in Threads |-> FALSE]
    /\ retry = [t \in Threads |-> FALSE]
    /\ ipc = [t \in Threads |-> "idle"]
    /\ imsg = [t \in Threads |-> NoArr]
    /\ seen = [t \in Threads |-> NoCb]
    /\ in_buf = [t \in Threads |-> NULLPTR]
    /\ cb_called = [t \in Threads |-> NoCb]
    /\ cb_out = [t \in Threads |-> NULLPTR]
    /\ cb_len = [t \in Threads |-> 0]
    /\ iresult = [t \in Threads |-> NoArr]
    /\ iexit = [t \in Threads |-> "none"]
    /\ nmalloc = [t \in Threads |-> 0]
    /\ nfree = [t \in Threads |-> 0]
    /\ allowed = [t \in Threads |-> {}]
    /\ lastReg = NoCb
    /\ nin = 0
    /\ nregs = 0

\* ------------------------------------------------------ JNI_OnLoad
JNI_OnLoad ==
    /\ ~crashed
    /\ ~g_vm
    /\ g_vm' = TRUE
    /\ UNCHANGED <<g_bridge_class, g_handle_call_id, runtime, heap, crashed,
                   frame, obs, inbound>>

\* ------------------------------------------------ native_binder_call
\* lines 29-31: *out_len = 0; if (!g_vm || !msg) return NULL;
CallWithin(t, m, budget) ==
    /\ ~crashed
    /\ pc[t] = "idle"
    /\ ipc[t] = "idle"
    /\ ncalls < budget
    /\ ncalls' = ncalls + 1
    /\ out_len' = [out_len EXCEPT ![t] = 0]
    /\ entryAttached' = [entryAttached EXCEPT ![t] = threadAttached[t]]
    /\ entryRefs' = [entryRefs EXCEPT ![t] = localRefs[t]]
    /\ ndetach' = [ndetach EXCEPT ![t] = 0]
    /\ hmode' = [hmode EXCEPT ![t] = "none"]
    /\ entryCached' = [entryCached EXCEPT ![t] =
                          g_bridge_class # NoRef /\ g_handle_call_id # NoId]
    /\ UNCHANGED retry
    /\ msg' = [msg EXCEPT ![t] = m]
    /\ IF ~g_vm \/ m = NoMsg
         THEN /\ pc' = [pc EXCEPT ![t] = "ret"]
              /\ ret' = [ret EXCEPT ![t] = NULLPTR]
              /\ exitPath' = [exitPath EXCEPT ![t] = "notinit"]
         ELSE /\ pc' = [pc EXCEPT ![t] = "L35"]
              /\ UNCHANGED <<ret, exitPath>>
    /\ UNCHANGED <<statics, runtime, heap, crashed, env, attached, newref,
                   in_arr, out_arr, inbound>>

Call(t, m) == CallWithin(t, m, MaxCalls)

\* GetEnv's status for the calling thread
GetEnvStatus(t) ==
    IF threadAttached[t] THEN {JNI_OK, JNI_EVERSION} ELSE {JNI_EDETACHED}

\* lines 33-38: GetEnv, and AttachCurrentThread when it reports detached
GetEnv(t) ==
    /\ ~crashed
    /\ pc[t] = "L35"
    /\ \E st \in GetEnvStatus(t) :
         \/ /\ st = JNI_EDETACHED
            /\ \E ok \in BOOLEAN :
                 IF ok
                   THEN /\ threadAttached' = [threadAttached EXCEPT ![t] = TRUE]
                        /\ env' = [env EXCEPT ![t] = TRUE]
                        /\ attached' = [attached EXCEPT ![t] = TRUE]
                        /\ pc' = [pc EXCEPT ![t] = "E20"]
                        /\ UNCHANGED <<ret, exitPath>>
                   ELSE /\ pc' = [pc EXCEPT ![t] = "ret"]
                        /\ ret' = [ret EXCEPT ![t] = NULLPTR]
                        /\ exitPath' = [exitPath EXCEPT ![t] = "attachfail"]
                        /\ UNCHANGED <<threadAttached, env, attached>>
         \/ /\ st # JNI_EDETACHED
            /\ env' = [env EXCEPT ![t] = (st = JNI_OK)]
            /\ attached' = [attached EXCEPT ![t] = FALSE]
            /\ pc' = [pc EXCEPT ![t] = "E20"]
            /\ UNCHANGED <<threadAttached, ret, exitPath>>
    /\ UNCHANGED <<statics, localRefs, classLocal, pending, globalRefs, heap,
                   crashed, msg, newref, in_arr, out_arr, out_len,
                   entryAttached, entryRefs, ndetach, hmode, ncalls, hist,
                   inbound>>

\* ----------------------------------------------------- ensure_bridge
\* variables no step of ensure_bridge touches
bridgeFrame == <<threadAttached, heap, msg, env, attached, in_arr, out_arr,
                 ret, out_len, entryAttached, entryRefs, ndetach, hmode,
                 ncalls, hist, g_vm, inbound>>

\* line 20: if (g_bridge_class != NULL && g_handle_call_id != NULL) return 1;
EnsureCached(t) ==
    /\ ~crashed
    /\ pc[t] = "E20"
    /\ pc' = [pc EXCEPT ![t] =
                IF g_bridge_class # NoRef /\ g_handle_call_id # NoId
                  THEN "L45" ELSE "E21"]
    /\ UNCHANGED <<g_bridge_class, g_handle_call_id, localRefs, classLocal,
                   pending, globalRefs, crashed, newref, exitPath,
                   bridgeFrame>>

\* line 21: g_bridge_class = FindClass(env, "com/native_binder/NativeBinder");
FindClass(t) ==
    /\ ~crashed
    /\ pc[t] = "E21"
    /\ \E o \in EnvUse(t) :
         \/ /\ o = "ok"
            /\ g_bridge_class' = LocalRef(t)
            /\ localRefs' = [localRefs EXCEPT ![t] = @ + 1]
            /\ classLocal' = [classLocal EXCEPT ![t] = TRUE]
            /\ pc' = [pc EXCEPT ![t] = "E22"]
            /\ UNCHANGED <<pending, crashed>>
         \/ /\ o = "fail"
            /\ g_bridge_class' = NoRef
            /\ pending' = [pending EXCEPT ![t] = TRUE]
            /\ pc' = [pc EXCEPT ![t] = "E22"]
            /\ UNCHANGED <<localRefs, classLocal, crashed>>
         \/ /\ o = "crash"
            /\ crashed' = TRUE
            /\ UNCHANGED <<g_bridge_class, localRefs, classLocal, pending, pc>>
    /\ UNCHANGED <<g_handle_call_id, globalRefs, newref, exitPath, bridgeFrame>>

\* line 22: if (!g_bridge_class) return 0;   (line 40 then takes the failure exit)
ClassCheck(t) ==
    /\ ~crashed
    /\ pc[t] = "E22"
    /\ IF g_bridge_class = NoRef
         THEN /\ pc' = [pc EXCEPT ![t] = "leave"]
              /\ exitPath' = [exitPath EXCEPT ![t] = "resolve"]
         ELSE /\ pc' = [pc EXCEPT ![t] = "E23"]
              /\ UNCHANGED exitPath
    /\ UNCHANGED <<g_bridge_class, g_handle_call_id, localRefs, classLocal,
                   pending, globalRefs, crashed, newref, bridgeFrame>>

\* line 23, right-hand side: NewGlobalRef(env, g_bridge_class)
NewGlobalRef(t) ==
    /\ ~crashed
    /\ pc[t] = "E23"
    /\ \E o \in (IF g_bridge_class = NoRef THEN {"fail"}
                 ELSE RefUse(t, g_bridge_class) \cup {"fail"}) :
         \/ /\ o = "ok"
            /\ globalRefs' = globalRefs + 1
            /\ newref' = [newref EXCEPT ![t] = GlobalRef(globalRefs + 1)]
            /\ pc' = [pc EXCEPT ![t] = "E23w"]
            /\ UNCHANGED crashed
         \/ /\ o = "fail"
            /\ newref' = [newref EXCEPT ![t] = NoRef]
            /\ pc' = [pc EXCEPT ![t] = "E23w"]
            /\ UNCHANGED <<globalRefs, crashed>>
         \/ /\ o = "crash"
            /\ crashed' = TRUE
            /\ UNCHANGED <<globalRefs, newref, pc>>
    /\ UNCHANGED <<g_bridge_class, g_handle_call_id, localRefs, classLocal,
                   pending, exitPath, bridgeFrame>>

\* line 23, the assignment: g_bridge_class = <the new reference>;
StoreGlobalRef(t) ==
    /\ ~crashed
    /\ pc[t] = "E23w"
    /\ g_bridge_class' = newref[t]
    /\ newref' = [newref EXCEPT ![t] = NoRef]
    /\ pc' = [pc EXCEPT ![t] = "E24"]
    /\ UNCHANGED <<g_handle_call_id, localRefs, classLocal, pending,
                   globalRefs, crashed, exitPath, bridgeFrame>>

\* line 24: g_handle_call_id = GetStaticMethodID(env, g_bridge_class, ...);
GetStaticMethodID(t) ==
    /\ ~crashed
    /\ pc[t] = "E24"
    /\ \E o \in RefUse(t, g_bridge_class) \cup
                  (IF g_bridge_class = NoRef THEN {} ELSE {"fail"}) :
         \/ /\ o = "ok"
            /\ g_handle_call_id' = HandleCallId
            /\ pc' = [pc EXCEPT ![t] = "E25"]
            /\ UNCHANGED <<pending, crashed>>
         \/ /\ o = "fail"
            /\ g_handle_call_id' = NoId
            /\ pending' = [pending EXCEPT ![t] = TRUE]
            /\ pc' = [pc EXCEPT ![t] = "E25"]
            /\ UNCHANGED crashed
         \/ /\ o = "crash"
            /\ crashed' = TRUE
            /\ UNCHANGED <<g_handle_call_id, pending, pc>>
    /\ UNCHANGED <<g_bridge_class, localRefs, classLocal, globalRefs, newref,
                   exitPath, bridgeFrame>>

\* line 25: return g_handle_call_id != NULL;   (line 40 takes the failure exit)
MethodCheck(t) ==
    /\ ~crashed
    /\ pc[t] = "E25"
    /\ IF g_handle_call_id = NoId
         THEN /\ pc' = [pc EXCEPT ![t] = "leave"]
              /\ exitPath' = [exitPath EXCEPT ![t] = "resolve"]
         ELSE /\ pc' = [pc EXCEPT ![t] = "L45"]
              /\ UNCHANGED exitPath
    /\ UNCHANGED <<g_bridge_class, g_handle_call_id, localRefs, classLocal,
                   pending, globalRefs, crashed, newref, bridgeFrame>>

\* ------------------------------------- native_binder_call, lines 45-78
\* InArrayOf with SetByteArrayRegion forgotten: the array stays zero-filled
InArrayZeroed(m) == [i \in 1..Len(m) |-> 0]

\* lines 45, 50: the managed array NewByteArray and SetByteArrayRegion build
InArrayOf(m) == [i \in 1..Len(m) |-> ToJbyte(m[i])]

\* lines 45-50: in_arr = NewByteArray(env, (jsize)len); SetByteArrayRegion(...)
NewInArray(t) ==
    /\ ~crashed
    /\ pc[t] = "L45"
    /\ \E o \in (IF env[t] /\ ToJsize(Len(msg[t])) < 0
                   THEN EnvUse(t) \ {"ok"} ELSE EnvUse(t)) :
         \/ /\ o = "ok"
            /\ in_arr' = [in_arr EXCEPT ![t] = InArrayOf(msg[t])]
            /\ localRefs' = [localRefs EXCEPT ![t] = @ + 1]
            /\ pc' = [pc EXCEPT ![t] = "L52"]
            /\ UNCHANGED <<pending, crashed, exitPath>>
         \/ /\ o = "fail"
            /\ pending' = [pending EXCEPT ![t] = TRUE]
            /\ pc' = [pc EXCEPT ![t] = "leave"]
            /\ exitPath' = [exitPath EXCEPT ![t] = "inalloc"]
            /\ UNCHANGED <<in_arr, localRefs, crashed>>
         \/ /\ o = "crash"
            /\ crashed' = TRUE
            /\ UNCHANGED <<in_arr, localRefs, pending, pc, exitPath>>
    /\ UNCHANGED <<statics, threadAttached, classLocal, globalRefs, heap, msg,
                   env, attached, newref, out_arr, ret, out_len,
                   entryAttached, entryRefs, ndetach, hmode, ncalls, hist,
                   inbound>>

\* What handleCall returns for the array it is given
HandlerResult(mode, arr) ==
    CASE mode = "identity" -> arr
      [] mode = "fixed" -> FixedReply
      [] OTHER -> NoArr

\* lines 52-53: out_arr = CallStaticObjectMethod(env, g_bridge_class,
\*              g_handle_call_id, in_arr); DeleteLocalRef(env, in_arr);
CallHandler(t) ==
    /\ ~crashed
    /\ pc[t] = "L52"
    /\ \E o \in (IF g_handle_call_id = NoId THEN {"crash"}
                 ELSE RefUse(t, g_bridge_class)) :
         \/ /\ o = "ok"
            /\ \E mode \in (IF pending[t] THEN {"throws"} ELSE HandlerModes) :
                 /\ hmode' = [hmode EXCEPT ![t] = mode]
                 /\ out_arr' = [out_arr EXCEPT ![t] =
                                   HandlerResult(mode, in_arr[t])]
                 /\ pending' = [pending EXCEPT ![t] = @ \/ mode = "throws"]
                 /\ localRefs' = [localRefs EXCEPT ![t] =
                       IF HandlerResult(mode, in_arr[t]) = NoArr
                         THEN @ - 1 ELSE @]
            /\ in_arr' = [in_arr EXCEPT ![t] = NoArr]
            /\ pc' = [pc EXCEPT ![t] = "L55"]
            /\ UNCHANGED crashed
         \/ /\ o = "fail"
            /\ hmode' = [hmode EXCEPT ![t] = "refused"]
            /\ pending' = [pending EXCEPT ![t] = TRUE]
            /\ localRefs' = [localRefs EXCEPT ![t] = @ - 1]
            /\ in_arr' = [in_arr EXCEPT ![t] = NoArr]
            /\ pc' = [pc EXCEPT ![t] = "L55"]
            /\ UNCHANGED <<out_arr, crashed>>
         \/ /\ o = "crash"
            /\ crashed' = TRUE
            /\ UNCHANGED <<hmode, out_arr, pending, localRefs, in_arr, pc>>
    /\ UNCHANGED <<statics, threadAttached, classLocal, globalRefs, heap, msg,
                   env, attached, newref, ret, out_len, exitPath,
                   entryAttached, entryRefs, ndetach, ncalls, hist,
                   inbound>>

\* lines 55-59: if (ExceptionCheck(env) || !out_arr) { delete out_arr; ... }
ExceptionCheck(t) ==
    /\ ~crashed
    /\ pc[t] = "L55"
    /\ IF pending[t] \/ out_arr[t] = NoArr
         THEN /\ localRefs' = [localRefs EXCEPT ![t] =
                                  IF out_arr[t] # NoArr THEN @ - 1 ELSE @]
              /\ out_arr' = [out_arr EXCEPT ![t] = NoArr]
              /\ pc' = [pc EXCEPT ![t] = "leave"]
              /\ exitPath' = [exitPath EXCEPT ![t] = "exception"]
         ELSE /\ pc' = [pc EXCEPT ![t] = "L61"]
              /\ UNCHANGED <<localRefs, out_arr, exitPath>>
    /\ UNCHANGED <<statics, threadAttached, classLocal, pending, globalRefs,
                   heap, crashed, msg, env, attached, newref, in_arr, ret,
                   out_len, entryAttached, entryRefs, ndetach, hmode, ncalls,
                   hist,
                   inbound>>

\* lines 64, 71: the size handed to malloc
MallocSize(n) == IF n > 0 THEN n ELSE 1
\* line 67: the bytes GetByteArrayRegion copies out
OutBytesOf(arr) == [i \in 1..Len(arr) |-> FromJbyte(arr[i])]
\* ReportedLen with *out_len written before malloc's result is tested
ReportedLenUnchecked(ptr, n) == n

\* lines 66-72: *out_len is written only under if (out_ptr)
ReportedLen(ptr, n) == IF ptr # NULLPTR THEN n ELSE 0

\* lines 61-74: malloc the native buffer, copy the response, delete out_arr
CopyOut(t) ==
    /\ ~crashed
    /\ pc[t] = "L61"
    /\ \E ok \in BOOLEAN :
         LET n == ToU32(Len(out_arr[t]))
             p == IF ok /\ MallocSize(n) > 0 THEN FreshAddr ELSE NULLPTR
         IN /\ heap' = IF p # NULLPTR
                         THEN heap \cup {<<p, OutBytesOf(out_arr[t])>>}
                         ELSE heap
            /\ ret' = [ret EXCEPT ![t] = p]
            /\ out_len' = [out_len EXCEPT ![t] = ReportedLen(p, n)]
    /\ localRefs' = [localRefs EXCEPT ![t] = @ - 1]
    /\ out_arr' = [out_arr EXCEPT ![t] = NoArr]
    /\ pc' = [pc EXCEPT ![t] = "leave"]
    /\ exitPath' = [exitPath EXCEPT ![t] = "done"]
    /\ UNCHANGED <<statics, threadAttached, classLocal, pending, globalRefs,
                   crashed, msg, env, attached, newref, in_arr,
                   entryAttached, entryRefs, ndetach, hmode, ncalls, hist,
                   inbound>>

\* DetachCurrentThread: the thread leaves the VM; its local references and
\* its pending exception go with it.
DetachCurrentThread(t) ==
    /\ threadAttached' = [threadAttached EXCEPT ![t] = FALSE]
    /\ localRefs' = [localRefs EXCEPT ![t] = 0]
    /\ classLocal' = [classLocal EXCEPT ![t] = FALSE]
    /\ pending' = [pending EXCEPT ![t] = FALSE]
    /\ ndetach' = [ndetach EXCEPT ![t] = @ + 1]

\* ExitDetach with the detach forgotten
ExitNoDetach(t) ==
    UNCHANGED <<threadAttached, localRefs, classLocal, pending, ndetach>>

\* ExitDetach without the test of attached
ExitAlwaysDetach(t) == DetachCurrentThread(t)

\* lines 41, 47, 57, 76: if (attached) DetachCurrentThread(g_vm);
ExitDetach(t) ==
    IF attached[t]
      THEN DetachCurrentThread(t)
      ELSE UNCHANGED <<threadAttached, localRefs, classLocal, pending, ndetach>>

\* lines 41-42, 47-48, 57-58, 76-77: detach if this call attached, return
Leave(t) ==
    /\ ~crashed
    /\ pc[t] = "leave"
    /\ ExitDetach(t)
    /\ pc' = [pc EXCEPT ![t] = "ret"]
    /\ UNCHANGED <<statics, globalRefs, heap, crashed, msg, env, attached,
                   newref, in_arr, out_arr, ret, out_len, exitPath,
                   entryAttached, entryRefs, hmode, ncalls, hist,
                   inbound>>

\* native_binder_free that releases nothing
native_binder_free_noop(h, ptr) == h

\* lines 81-83: if (ptr) free(ptr);
native_binder_free(h, ptr) ==
    IF ptr # NULLPTR THEN {b \in h : b[1] # ptr} ELSE h

\* The caller releases what native_binder_call returned and is done with it
Release(t) ==
    /\ ~crashed
    /\ pc[t] = "ret"
    /\ heap' = native_binder_free(heap, ret[t])
    /\ pc' = [pc EXCEPT ![t] = "idle"]
    /\ msg' = [msg EXCEPT ![t] = NoMsg]
    /\ env' = [env EXCEPT ![t] = FALSE]
    /\ attached' = [attached EXCEPT ![t] = FALSE]
    /\ ret' = [ret EXCEPT ![t] = NULLPTR]
    /\ out_len' = [out_len EXCEPT ![t] = 0]
    /\ exitPath' = [exitPath EXCEPT ![t] = "none"]
    /\ entryAttached' = [entryAttached EXCEPT ![t] = FALSE]
    /\ entryRefs' = [entryRefs EXCEPT ![t] = 0]
    /\ ndetach' = [ndetach EXCEPT ![t] = 0]
    /\ hmode' = [hmode EXCEPT ![t] = "none"]
    /\ entryCached' = [entryCached EXCEPT ![t] = FALSE]
    /\ retry' = [retry EXCEPT ![t] = (exitPath[t] = "resolve")]
    /\ UNCHANGED <<statics, runtime, crashed, newref, in_arr, out_arr, ncalls,
                   inbound>>

Next ==
    \/ JNI_OnLoad
    \/ \E t \in Threads :
         \/ \E m \in Msgs \cup {NoMsg} : Call(t, m)
         \/ GetEnv(t)
         \/ EnsureCached(t)
         \/ FindClass(t)
         \/ ClassCheck(t)
         \/ NewGlobalRef(t)
         \/ StoreGlobalRef(t)
         \/ GetStaticMethodID(t)
         \/ MethodCheck(t)
         \/ NewInArray(t)
         \/ CallHandler(t)
         \/ ExceptionCheck(t)
         \/ CopyOut(t)
         \/ Leave(t)
         \/ Release(t)

Spec == Init /\ [][Next]_vars

\* ---------------------------------------------- dart_binder_register
outbound == <<statics, runtime, crashed, frame, obs>>

\* dart_binder_register that keeps an earlier registration
dart_binder_register_first(old, cb) == IF old = NoCb THEN cb ELSE old

\* line 88: the value g_dart_callback holds after dart_binder_register(cb)
dart_binder_register(old, cb) == cb

\* lines 87-89, called on any thread
Register(cb) ==
    /\ ~crashed
    /\ nregs < MaxRegs
    /\ nregs' = nregs + 1
    /\ g_dart_callback' = dart_binder_register(g_dart_callback, cb)
    /\ lastReg' = cb
    /\ allowed' = [t \in Threads |->
                     IF ipc[t] \in {"idle", "iret"} THEN allowed[t]
                     ELSE allowed[t] \cup {cb}]
    /\ UNCHANGED <<outbound, heap, ipc, imsg, seen, in_buf, cb_called, cb_out,
                   cb_len, iresult, iexit, nmalloc, nfree, nin>>

\* ------------------- Java_com_native_1binder_NativeBinder_callDartNative
\* NoCallback with the test dropped
NoCallbackUnchecked(cb) == FALSE

\* line 94: the test that no callback is registered
NoCallback(cb) == cb = NoCb

\* a return of NULL from the inbound call
\* a failure exit that returns an empty array instead of null
ReturnEmptyArray(t, why) ==
    /\ ipc' = [ipc EXCEPT ![t] = "iret"]
    /\ iresult' = [iresult EXCEPT ![t] = <<>>]
    /\ iexit' = [iexit EXCEPT ![t] = why]

ReturnNull(t, why) ==
    /\ ipc' = [ipc EXCEPT ![t] = "iret"]
    /\ iresult' = [iresult EXCEPT ![t] = NoArr]
    /\ iexit' = [iexit EXCEPT ![t] = why]

\* lines 93-96: entry from a managed thread; if (!g_dart_callback) return NULL;
InCall(t, a) ==
    /\ ~crashed
    /\ ipc[t] = "idle"
    /\ pc[t] = "idle"
    /\ threadAttached[t]
    /\ nin < MaxInCalls
    /\ nin' = nin + 1
    /\ imsg' = [imsg EXCEPT ![t] = a]
    /\ seen' = [seen EXCEPT ![t] = g_dart_callback]
    /\ allowed' = [allowed EXCEPT ![t] = {lastReg}]
    /\ IF NoCallback(g_dart_callback)
         THEN ReturnNull(t, "nocb")
         ELSE /\ ipc' = [ipc EXCEPT ![t] = "I98"]
              /\ UNCHANGED <<iresult, iexit>>
    /\ UNCHANGED <<outbound, heap, g_dart_callback, in_buf, cb_called, cb_out,
                   cb_len, nmalloc, nfree, lastReg, nregs>>

\* lines 98-104: len = GetArrayLength; if (len == 0) return NULL;
\*                in_buf = malloc(len); if (!in_buf) return NULL; copy
InCopy(t) ==
    /\ ~crashed
    /\ ipc[t] = "I98"
    /\ IF Len(imsg[t]) = 0
         THEN /\ ReturnNull(t, "empty")
              /\ UNCHANGED <<heap, in_buf, nmalloc>>
         ELSE /\ nmalloc' = [nmalloc EXCEPT ![t] = @ + 1]
              /\ \E ok \in BOOLEAN :
                   IF ok
                     THEN /\ heap' = heap \cup
                                {<<FreshAddr, OutBytesOf(imsg[t])>>}
                          /\ in_buf' = [in_buf EXCEPT ![t] = FreshAddr]
                          /\ ipc' = [ipc EXCEPT ![t] = "I107"]
                          /\ UNCHANGED <<iresult, iexit>>
                     ELSE /\ ReturnNull(t, "inalloc")
                          /\ UNCHANGED <<heap, in_buf>>
    /\ UNCHANGED <<outbound, g_dart_callback, imsg, seen, cb_called, cb_out,
                   cb_len, nfree, allowed, lastReg, nin, nregs>>

\* What a registered callback hands back for the input bytes: the bytes of
\* the buffer it returns (NoMsg for a null pointer) and the length it reports
CallbackBytes(cb, bytes) ==
    CASE cb = "echo" -> bytes
      [] cb = "empty" -> <<>>
      [] OTHER -> NoMsg
CallbackLen(cb, bytes) == IF cb = "echo" THEN Len(bytes) ELSE 0

\* line 107: out_buf = g_dart_callback(in_buf, (uint32_t)len, &out_len);
\* the static is read again here; a call through a null pointer aborts
InInvoke(t) ==
    /\ ~crashed
    /\ ipc[t] = "I107"
    /\ IF g_dart_callback = NoCb
         THEN /\ crashed' = TRUE
              /\ UNCHANGED <<heap, cb_called, cb_out, cb_len, ipc>>
         ELSE LET bytes == Block(in_buf[t])[2]
                  out == CallbackBytes(g_dart_callback, bytes)
              IN /\ cb_called' = [cb_called EXCEPT ![t] = g_dart_callback]
                 /\ cb_len' = [cb_len EXCEPT ![t] =
                                  CallbackLen(g_dart_callback, bytes)]
                 /\ IF out = NoMsg
                      THEN /\ cb_out' = [cb_out EXCEPT ![t] = NULLPTR]
                           /\ UNCHANGED heap
                      ELSE /\ cb_out' = [cb_out EXCEPT ![t] = FreshAddr]
                           /\ heap' = heap \cup {<<FreshAddr, out>>}
                 /\ ipc' = [ipc EXCEPT ![t] = "I108"]
                 /\ UNCHANGED crashed
    /\ UNCHANGED <<statics, runtime, frame, obs, g_dart_callback, imsg, seen,
                   in_buf, iresult, iexit, nmalloc, nfree, allowed, lastReg,
                   nin, nregs>>

\* free that releases nothing
FreeBlockLeak(h, p) == h

\* free(p) of a live block
FreeBlock(h, p) == {b \in h : b[1] # p}

\* line 108: free(in_buf);
InFreeInput(t) ==
    /\ ~crashed
    /\ ipc[t] = "I108"
    /\ heap' = FreeBlock(heap, in_buf[t])
    /\ nfree' = [nfree EXCEPT ![t] = @ + 1]
    /\ in_buf' = [in_buf EXCEPT ![t] = NULLPTR]
    /\ ipc' = [ipc EXCEPT ![t] = "I110"]
    /\ UNCHANGED <<outbound, g_dart_callback, imsg, seen, cb_called, cb_out,
                   cb_len, iresult, iexit, nmalloc, allowed, lastReg, nin,
                   nregs>>

\* lines 110-113: if (!out_buf || out_len == 0) { if (out_buf) free; NULL }
InAfter(t) ==
    /\ ~crashed
    /\ ipc[t] = "I110"
    /\ IF cb_out[t] = NULLPTR \/ cb_len[t] = 0
         THEN /\ IF cb_out[t] # NULLPTR
                   THEN /\ heap' = FreeBlock(heap, cb_out[t])
                        /\ nfree' = [nfree EXCEPT ![t] = @ + 1]
                   ELSE UNCHANGED <<heap, nfree>>
              /\ cb_out' = [cb_out EXCEPT ![t] = NULLPTR]
              /\ ReturnNull(t, "cbfail")
         ELSE /\ ipc' = [ipc EXCEPT ![t] = "I115"]
              /\ UNCHANGED <<heap, nfree, cb_out, iresult, iexit>>
    /\ UNCHANGED <<outbound, g_dart_callback, imsg, seen, in_buf, cb_called,
                   cb_len, nmalloc, allowed, lastReg, nin, nregs>>

\* ResultArrayOf copying one byte too few
ResultArrayShort(bytes, n) == InArrayOf(SubSeq(bytes, 1, n - 1))

\* lines 115-118: the managed array NewByteArray and SetByteArrayRegion build
\* from the first n bytes of the callback's buffer
ResultArrayOf(bytes, n) == InArrayOf(SubSeq(bytes, 1, n))

\* lines 115-121: result = NewByteArray(out_len); copy; free(out_buf); return
InResult(t) ==
    /\ ~crashed
    /\ ipc[t] = "I115"
    /\ \E ok \in BOOLEAN :
         IF ok /\ ToJsize(cb_len[t]) >= 0
           THEN /\ iresult' = [iresult EXCEPT ![t] =
                      ResultArrayOf(Block(cb_out[t])[2], ToJsize(cb_len[t]))]
                /\ iexit' = [iexit EXCEPT ![t] = "done"]
                /\ UNCHANGED pending
           ELSE /\ iresult' = [iresult EXCEPT ![t] = NoArr]
                /\ iexit' = [iexit EXCEPT ![t] = "outalloc"]
                /\ pending' = [pending EXCEPT ![t] = TRUE]
    /\ heap' = FreeBlock(heap, cb_out[t])
    /\ nfree' = [nfree EXCEPT ![t] = @ + 1]
    /\ cb_out' = [cb_out EXCEPT ![t] = NULLPTR]
    /\ ipc' = [ipc EXCEPT ![t] = "iret"]
    /\ UNCHANGED <<statics, threadAttached, localRefs, classLocal, globalRefs,
                   crashed, frame, obs, g_dart_callback, imsg, seen, in_buf,
                   cb_called, cb_len, nmalloc, allowed, lastReg, nin, nregs>>

\* The managed caller takes the result; the native frame is gone
InDone(t) ==
    /\ ~crashed
    /\ ipc[t] = "iret"
    /\ ipc' = [ipc EXCEPT ![t] = "idle"]
    /\ imsg' = [imsg EXCEPT ![t] = NoArr]
    /\ seen' = [seen EXCEPT ![t] = NoCb]
    /\ cb_called' = [cb_called EXCEPT ![t] = NoCb]
    /\ cb_len' = [cb_len EXCEPT ![t] = 0]
    /\ iresult' = [iresult EXCEPT ![t] = NoArr]
    /\ iexit' = [iexit EXCEPT ![t] = "none"]
    /\ nmalloc' = [nmalloc EXCEPT ![t] = 0]
    /\ nfree' = [nfree EXCEPT ![t] = 0]
    /\ allowed' = [allowed EXCEPT ![t] = {}]
    /\ pending' = [pending EXCEPT ![t] = FALSE]
    /\ UNCHANGED <<statics, threadAttached, localRefs, classLocal, globalRefs,
                   heap, crashed, frame, obs, g_dart_callback, in_buf, cb_out,
                   lastReg, nin, nregs>>

\* The arrays managed callers pass
InMsgs == {InArrayOf(m) : m \in Msgs}

NextIn ==
    \/ \E cb \in Callbacks \cup {NoCb} : Register(cb)
    \/ \E t \in Threads :
         \/ \E a \in InMsgs : InCall(t, a)
         \/ InCopy(t)
         \/ InInvoke(t)
         \/ InFreeInput(t)
         \/ InAfter(t)
         \/ InResult(t)
         \/ InDone(t)

SpecIn == Init /\ [][NextIn]_vars

\* ------------------------------------------------------------- claims
\* the call of thread t has returned to its caller
Returned(t) == pc[t] = "ret"
\* the call of thread t attached the thread itself (lines 35-37)
AttachedByCall(t) ==
    ~entryAttached[t] /\ exitPath[t] \notin {"none", "notinit", "attachfail"}

\* C1: a native_binder_call that attached the calling thread itself has
\* detached it exactly once when it returns, whichever exit it takes
\* (resolution failure, input array failure, exception or null response,
\* output allocation failure, success).
C1_AttachedThreadDetachedOnce ==
    \A t \in Threads :
        (Returned(t) /\ AttachedByCall(t)) =>
            (~threadAttached[t] /\ ndetach[t] = 1)

C1_Witness ==
    \E t, u \in Threads :
        /\ Returned(t) /\ AttachedByCall(t) /\ exitPath[t] = "inalloc"
        /\ Returned(u) /\ AttachedByCall(u) /\ exitPath[u] = "done"
        /\ ndetach[t] = 1 /\ ndetach[u] = 1

\* C2: a thread that was attached when it entered native_binder_call is
\* never detached by the call: it is attached at every step of the call and
\* when the call returns, whatever the outcome.
C2_AttachedThreadStaysAttached ==
    \A t \in Threads :
        (pc[t] # "idle" /\ entryAttached[t]) =>
            (threadAttached[t] /\ ndetach[t] = 0)

C2_Witness ==
    \E t, u \in Threads :
        /\ Returned(t) /\ entryAttached[t] /\ exitPath[t] = "exception"
        /\ Returned(u) /\ entryAttached[u] /\ exitPath[u] = "done"
        /\ threadAttached[t] /\ threadAttached[u]

\* C3: every failure of native_binder_call returns the null pointer with an
\* output length of zero: no exit but the successful one returns a pointer,
\* and a null pointer never comes with a non-zero length.
C3_FailureIsNullAndZero ==
    \A t \in Threads :
        Returned(t) =>
            /\ exitPath[t] # "done" => (ret[t] = NULLPTR /\ out_len[t] = 0)
            /\ ret[t] = NULLPTR => out_len[t] = 0

\* the output allocation failed for a two-byte response
C3_Witness ==
    \E t \in Threads :
        /\ Returned(t) /\ exitPath[t] = "done" /\ hmode[t] = "fixed"
        /\ ret[t] = NULLPTR /\ out_len[t] = 0

\* C4: when the managed handler is the identity, the call takes the
\* successful exit and, unless malloc failed, returns a live buffer whose
\* reported length is len(m) and whose bytes are those of m; for the empty
\* message that is a non-null buffer of length zero.
C4_IdentityRoundTrip ==
    \A t \in Threads :
        (Returned(t) /\ hmode[t] = "identity") =>
            /\ exitPath[t] = "done"
            /\ ret[t] # NULLPTR =>
                 /\ Live(ret[t])
                 /\ out_len[t] = Len(msg[t])
                 /\ Block(ret[t])[2] = msg[t]

C4_Witness ==
    \E t, u \in Threads :
        /\ Returned(t) /\ hmode[t] = "identity" /\ msg[t] = <<>>
        /\ ret[t] # NULLPTR /\ out_len[t] = 0
        /\ Returned(u) /\ hmode[u] = "identity" /\ msg[u] = <<1, 200>>
        /\ ret[u] # NULLPTR /\ out_len[u] = 2

\* thread t has come out of ensure_bridge with the bridge reported ready
PastBridge(t) == pc[t] \in {"L45", "L52"}

\* C5: concurrent first use resolves the entry point once: when every
\* running call has come out of ensure_bridge with no lookup having failed,
\* one global reference has been created and g_bridge_class holds it,
\* together with the method id.
C5_OneResolution ==
    ((\A t \in Threads : PastBridge(t) /\ ~pending[t]) /\ ~crashed) =>
        /\ globalRefs = 1
        /\ g_bridge_class = GlobalRef(1)
        /\ g_handle_call_id = HandleCallId

\* C6: the native buffers are balanced: the live blocks are exactly the
\* non-null pointers the calls have produced and not yet released, one block
\* each, so a call that returned null holds none and nothing stays allocated
\* once every result has been released.
C6_NativeBufferBalance ==
    /\ {b[1] : b \in heap} = {ret[t] : t \in {u \in Threads : ret[u] # NULLPTR}}
    /\ Cardinality(heap) = Cardinality({t \in Threads : ret[t] # NULLPTR})
    /\ \A t \in Threads : ret[t] # NULLPTR => pc[t] \in {"leave", "ret"}

C6_Witness ==
    \E t, u \in Threads :
        /\ Returned(t) /\ ret[t] # NULLPTR
        /\ Returned(u) /\ ret[u] = NULLPTR /\ exitPath[u] = "exception"
        /\ Cardinality(heap) = 1

\* C7: every local reference a native_binder_call created has been released
\* when it returns: the thread holds as many as at entry (none, if the call
\* detached it).
C7_LocalRefsReleased ==
    \A t \in Threads :
        Returned(t) =>
            localRefs[t] = (IF threadAttached[t] THEN entryRefs[t] ELSE 0)

\* the inbound call of thread t has returned to the managed caller
InReturned(t) == ipc[t] = "iret"

\* C8: an inbound call that finds no callback registered (the static is
\* null at line 94) returns null at once, for every message: it allocates
\* nothing and invokes no callback.
C8_NoCallbackReturnsNull ==
    \A t \in Threads :
        (ipc[t] # "idle" /\ seen[t] = NoCb) =>
            /\ InReturned(t)
            /\ iexit[t] = "nocb"
            /\ iresult[t] = NoArr
            /\ nmalloc[t] = 0
            /\ in_buf[t] = NULLPTR
            /\ cb_called[t] = NoCb

C8_Witness ==
    \E t \in Threads :
        /\ InReturned(t) /\ iexit[t] = "nocb" /\ nregs = 0
        /\ imsg[t] = InArrayOf(<<1, 200>>) /\ iresult[t] = NoArr
        /\ heap = {}

\* What the inbound call is to return for callback cb on array a, when
\* the result array can be allocated: a for the echo, null for a null
\* output, and zeroLen for a zero-length non-null output
InboundExpected(cb, a, zeroLen) ==
    CASE cb = "echo" -> a
      [] cb = "empty" -> zeroLen
      [] OTHER -> NoArr

\* C9 as stated: the inbound call returns the callback's output in each of
\* the three cases, a zero-length buffer coming back as a zero-length array
\* distinct from null.
C9_Original ==
    \A t \in Threads :
        (InReturned(t) /\ cb_called[t] # NoCb /\ iexit[t] # "outalloc") =>
            iresult[t] = InboundExpected(cb_called[t], imsg[t], <<>>)

\* C9, amended: the inbound call on a non-empty message, its allocations
\* succeeding, returns an array byte-equal to the message when the callback
\* echoes, and null both when the callback returns null and when it returns
\* a zero-length non-null buffer, which the layer frees.
C9_InboundReturnsCallbackOutput ==
    \A t \in Threads :
        (InReturned(t) /\ cb_called[t] # NoCb) =>
            /\ iexit[t] # "outalloc" =>
                 iresult[t] = InboundExpected(cb_called[t], imsg[t], NoArr)
            /\ cb_called[t] = "echo" <=> iexit[t] \in {"done", "outalloc"}
            /\ cb_called[t] # "echo" => iexit[t] = "cbfail"
            /\ ~Live(in_buf[t]) /\ ~Live(cb_out[t])

C9_Witness ==
    \E t, u \in Threads :
        /\ InReturned(t) /\ cb_called[t] = "echo"
        /\ imsg[t] = InArrayOf(<<1, 200>>) /\ iresult[t] = imsg[t]
        /\ InReturned(u) /\ cb_called[u] = "empty" /\ iresult[u] = NoArr

\* C10: registration is last-write-wins: the callback an inbound call
\* invokes is the one most recently registered when the call started, or
\* one registered while it ran; never one replaced before it started.
C10_LastRegistrationWins ==
    \A t \in Threads :
        cb_called[t] # NoCb => cb_called[t] \in allowed[t]

\* u invoked the echo callback; null was registered over it before t
\* started, and t invoked the null callback
C10_Witness ==
    \E t, u \in Threads :
        /\ cb_called[u] = "echo"
        /\ cb_called[t] = "null" /\ allowed[t] = {"null"}
        /\ nregs = 2 /\ g_dart_callback = "null"

\* ------------------------------------------- resolution, three calls
\* native_binder_call with the empty message: ensure_bridge does not read
\* the message, so one message is enough to follow three calls through it
BridgeCall(t) == CallWithin(t, <<>>, MaxBridgeCalls)

NextBridge ==
    \/ JNI_OnLoad
    \/ \E t \in Threads :
         \/ BridgeCall(t)
         \/ GetEnv(t)
         \/ EnsureCached(t)
         \/ FindClass(t)
         \/ ClassCheck(t)
         \/ NewGlobalRef(t)
         \/ StoreGlobalRef(t)
         \/ GetStaticMethodID(t)
         \/ MethodCheck(t)
         \/ NewInArray(t)
         \/ CallHandler(t)
         \/ ExceptionCheck(t)
         \/ CopyOut(t)
         \/ Leave(t)
         \/ Release(t)

SpecBridge == Init /\ [][NextBridge]_vars

\* the statements of ensure_bridge after line 20: the two lookups
LookupPcs == {"E21", "E22", "E23", "E23w", "E24", "E25"}

\* C11: once the class reference and the method id are both set, every
\* call of native_binder_call that starts later performs no class lookup
\* and no method lookup.
C11_CachedCallsSkipLookup ==
    \A t \in Threads : entryCached[t] => pc[t] \notin LookupPcs

\* the statements that call the managed runtime through env
EnvPcs == {"E21", "E23", "E24", "L45", "L52", "L55", "L61"}

\* C12: whatever GetEnv reports (attached, detached and then attached or
\* not, or another error status), a call that goes on to an operation of
\* the managed runtime holds a valid env; otherwise it has failed.
C12_ValidEnvBeforeJNI ==
    \A t \in Threads : pc[t] \in EnvPcs => env[t]

\* C13: a failed resolution does not disable the bridge: the next call of
\* the thread resolves again and, once its lookups and its input array
\* succeed, invokes the handler in a context in which it can succeed (no
\* managed exception is pending from the failed call).
C13_RetryCanSucceed ==
    \A t \in Threads : (retry[t] /\ pc[t] = "L52") => ~pending[t]

\* C14: once the class reference and the method id are both set, no step
\* of any thread changes either of them.
C14_CachedRefsImmutable ==
    [][(g_bridge_class # NoRef /\ g_handle_call_id # NoId) =>
          /\ g_bridge_class' = g_bridge_class
          /\ g_handle_call_id' = g_handle_call_id]_vars

\* C15: an inbound call that passed the no-callback and empty-input
\* checks allocates its input copy once and frees it once, right after the
\* callback returns and before the result is examined; a non-null callback
\* output is freed once on every path (zero length, result array not
\* allocated, success); no block is freed twice and none is left at return.
C15_InboundBuffersBalanced ==
    /\ {b[1] : b \in heap} =
          {in_buf[t] : t \in {u \in Threads : in_buf[u] # NULLPTR}} \cup
          {cb_out[t] : t \in {u \in Threads : cb_out[u] # NULLPTR}}
    /\ \A t \in Threads :
          /\ ipc[t] \in {"I107", "I108"} =>
                Live(in_buf[t]) /\ nmalloc[t] = 1 /\ nfree[t] = 0
          /\ ipc[t] = "I108" /\ cb_out[t] # NULLPTR =>
                cb_out[t] # in_buf[t]
          /\ ipc[t] \in {"I110", "I115"} =>
                /\ in_buf[t] = NULLPTR /\ nmalloc[t] = 1 /\ nfree[t] = 1
                /\ cb_out[t] # NULLPTR => Live(cb_out[t])
          /\ (InReturned(t) /\ iexit[t] \in {"cbfail", "outalloc", "done"}) =>
                /\ in_buf[t] = NULLPTR /\ cb_out[t] = NULLPTR
                /\ nmalloc[t] = 1
                /\ nfree[t] = (IF cb_called[t] = "null" THEN 1 ELSE 2)

\* t returned the echoed array and u returned null after a zero-length
\* non-null output: each freed two blocks and the heap is empty
C15_Witness ==
    \E t, u \in Threads :
        /\ InReturned(t) /\ iexit[t] = "done" /\ nfree[t] = 2
        /\ InReturned(u) /\ iexit[u] = "cbfail" /\ cb_called[u] = "empty"
        /\ nfree[u] = 2 /\ nmalloc[u] = 1
        /\ heap = {}

\* C16: an inbound call returns null, without invoking the callback, when
\* its input is empty (nothing allocated) or the input copy cannot be
\* allocated; it returns null when the callback returns a null pointer or
\* a zero length; in every other case with a callback registered it
\* returns an array byte-equal to the callback's output, of the reported
\* length, or null when that array cannot be allocated.
C16_InboundNullCases ==
    \A t \in Threads :
        InReturned(t) =>
            /\ Len(imsg[t]) = 0 =>
                  /\ iresult[t] = NoArr /\ cb_called[t] = NoCb
                  /\ nmalloc[t] = 0 /\ iexit[t] \in {"nocb", "empty"}
            /\ iexit[t] = "inalloc" =>
                  iresult[t] = NoArr /\ cb_called[t] = NoCb
            /\ cb_called[t] \in {"null", "empty"} =>
                  iresult[t] = NoArr /\ iexit[t] = "cbfail"
            /\ cb_called[t] = NoCb => iexit[t] \in {"nocb", "empty", "inalloc"}
            /\ cb_called[t] = "echo" =>
                  \/ /\ iexit[t] = "done" /\ iresult[t] = imsg[t]
                     /\ Len(iresult[t]) = cb_len[t]
                  \/ iexit[t] = "outalloc" /\ iresult[t] = NoArr

\* with a callback registered, t passed an empty array and u a two-byte
\* one that the callback echoed
C16_Witness ==
    \E t, u \in Threads :
        /\ InReturned(t) /\ seen[t] # NoCb /\ imsg[t] = <<>>
        /\ iexit[t] = "empty" /\ iresult[t] = NoArr
        /\ InReturned(u) /\ iexit[u] = "done"
        /\ iresult[u] = InArrayOf(<<1, 200>>)

\* C17: a native_binder_call that fails after reaching the managed
\* runtime (bridge not resolved, input array not allocated, handler error)
\* returns with no managed exception pending on the calling thread, so the
\* thread's next call starts from a clean context.
C17_FailureLeavesNoPending ==
    \A t \in Threads :
        (Returned(t) /\ exitPath[t] \in {"resolve", "inalloc", "exception"})
            => ~pending[t]

\* ------------------------------------------------ one calling thread
\* every call is made by the same thread, one after the other
Caller == "t1"

NextSingle ==
    \/ JNI_OnLoad
    \/ \E m \in Msgs \cup {NoMsg} : Call(Caller, m)
    \/ GetEnv(Caller)
    \/ EnsureCached(Caller)
    \/ FindClass(Caller)
    \/ ClassCheck(Caller)
    \/ NewGlobalRef(Caller)
    \/ StoreGlobalRef(Caller)
    \/ GetStaticMethodID(Caller)
    \/ MethodCheck(Caller)
    \/ NewInArray(Caller)
    \/ CallHandler(Caller)
    \/ ExceptionCheck(Caller)
    \/ CopyOut(Caller)
    \/ Leave(Caller)
    \/ Release(Caller)

SpecSingle == Init /\ [][NextSingle]_vars

\* C18: over any sequence of calls made by one thread, method-id lookup
\* failures and later retries included, at most one global reference to
\* the bridge class is ever created.
C18_OneGlobalRefPerThreadRun == globalRefs <= 1

\* C19: whenever ensure_bridge reports the bridge ready to a thread, and
\* whenever a thread invokes the managed entry point, g_bridge_class is a
\* global reference and the method id is set; it is never a local
\* reference that another thread inside ensure_bridge has stored.
C19_InvokesThroughGlobalRef ==
    [][\A t \in Threads :
          (\/ pc[t] \in {"E20", "E25"} /\ pc'[t] = "L45"
           \/ pc[t] = "L52" /\ pc'[t] = "L55")
              => IsGlobal(g_bridge_class) /\ g_handle_call_id # NoId]_vars

\* C20: an inbound call invokes the callback at most once, through the
\* non-null reference it read when it decided that a callback is
\* registered; whatever dart_binder_register stores meanwhile (null
\* included), it never calls through a null reference.
C20_InvokesTheCallbackItSaw ==
    /\ \A t \in Threads : cb_called[t] # NoCb => cb_called[t] = seen[t]
    /\ ~crashed

====
